---- MODULE Spec2Model ----
(***************************************************************************)
(* A model of the reboundx ephemeris force: the DE430 file handle          *)
(* (jpl_init, jpl_free), the Chebyshev evaluator (jpl_work), the body      *)
(* resolver (jpl_calc), the force engine (ephem, rebx_ephemeris_forces)    *)
(* and the dense-output driver (integration_function, store_function).     *)
(*                                                                         *)
(* A C double is modelled as an exact rational <<numerator, denominator>>  *)
(* in lowest terms with a positive denominator.                            *)
(***************************************************************************)
EXTENDS Integers, Sequences, FiniteSets, TLC

(***************************** bounds **************************************)
\* largest Chebyshev coefficient count of a slot in the modelled files
MaxNcf == 4
\* largest sub-interval count of a slot in the modelled files
MaxNiv == 3
\* number of data records in a complete modelled file
NumRec == 3

(************************* program constants *******************************)
_NUM_TEST == 11
_NUM_JPL == 15
HeaderAt == 2652
SecPerDay == 86400
BaseNum == 400
NameLen == 6
FirstTriples == 12
SzDouble == 8
SzInt32 == 4

\* enum of body codes, src/src/ephemeris_forces.c:71-85
PLAN_BAR == 0
PLAN_SOL == 1
PLAN_EAR == 2
PLAN_EMB == 3
PLAN_MER == 4
PLAN_VEN == 5
PLAN_MAR == 6
PLAN_JUP == 7
PLAN_SAT == 8
PLAN_URA == 9
PLAN_NEP == 10

\* enum of file slots, src/src/ephemeris_forces.c:88-106
JPL_MER == 0
JPL_VEN == 1
JPL_EMB == 2
JPL_MAR == 3
JPL_JUP == 4
JPL_SAT == 5
JPL_URA == 6
JPL_NEP == 7
JPL_PLU == 8
JPL_LUN == 9
JPL_SUN == 10
JPL_NUT == 11
JPL_LIB == 12
JPL_MAN == 13
JPL_TDB == 14

(************************* exact arithmetic ********************************)
Abs(a) == IF a < 0 THEN -a ELSE a

RECURSIVE GCD(_, _)
GCD(a, b) == IF b = 0 THEN a ELSE GCD(b, a % b)

\* n/d with the common factor g of n and d taken out and d made positive
Reduce(n, d, g) == IF d < 0 THEN <<(-n) \div g, (-d) \div g>> ELSE <<n \div g, d \div g>>

\* the rational n/d in lowest terms, d # 0
Rat(n, d) == Reduce(n, d, GCD(Abs(n), Abs(d)))

RInt(k) == <<k, 1>>
RZero == <<0, 1>>
RNeg(a) == <<-a[1], a[2]>>

\* sums and products cancel common factors first, as the exact value needs
AddOver(a, b, g) == Rat(a[1] * (b[2] \div g) + b[1] * (a[2] \div g), (a[2] \div g) * b[2])
RAdd(a, b) == AddOver(a, b, GCD(a[2], b[2]))
RSub(a, b) == AddOver(a, <<-b[1], b[2]>>, GCD(a[2], b[2]))
MulOver(a, b, g1, g2) == Rat((a[1] \div g1) * (b[1] \div g2), (a[2] \div g2) * (b[2] \div g1))
RMul(a, b) == MulOver(a, b, GCD(b[2], Abs(a[1])), GCD(a[2], Abs(b[1])))
RDiv(a, b) == MulOver(a, <<b[2], b[1]>>, GCD(Abs(b[1]), Abs(a[1])), GCD(a[2], Abs(b[2])))
LtOver(a, b, g) == a[1] * (b[2] \div g) < b[1] * (a[2] \div g)
RLt(a, b) == LtOver(a, b, GCD(a[2], b[2]))
RLe(a, b) == LtOver(a, b, GCD(a[2], b[2])) \/ a = b
\* the C conversion (int)x and (u_int32_t)x: truncation toward zero
RTrunc(a) == IF a[1] >= 0 THEN a[1] \div a[2] ELSE -((-a[1]) \div a[2])
\* C fmod(a, b) = a - b * trunc(a / b)
RFmod(a, b) == RSub(a, RMul(b, RInt(RTrunc(RDiv(a, b)))))

(******************** the ephemeris file on disk ****************************)
\* every slot taken to have three components
NcmOfMutAllThree(p) == 3

\* ncm[] as jpl_init assumes it: 2 for nutations, 1 for TT-TDB, 3 otherwise
NcmOf(p) == IF p = JPL_NUT THEN 2 ELSE IF p = JPL_TDB THEN 1 ELSE 3

Slots == 0 .. (_NUM_JPL - 1)

\* sum of g[p] over p in lo..hi
RECURSIVE SumTo(_, _, _)
SumTo(g, lo, hi) == IF hi < lo THEN 0 ELSE g[hi] + SumTo(g, lo, hi - 1)

\* the bytes read before the constant names are skipped: 3 doubles, num,
\* 2 doubles, 12 triples, ver, 1 triple
HeaderPart1 == 3 * SzDouble + SzInt32 + 2 * SzDouble + FirstTriples * 3 * SzInt32 + SzInt32 + 3 * SzInt32

\* a slot table in which every slot has the same shape
UniformLayout == [ncf |-> [p \in Slots |-> MaxNcf - 1], niv |-> [p \in Slots |-> MaxNiv - 1]]
\* a slot table in which the shape varies from slot to slot
VariedLayout == [ncf |-> [p \in Slots |-> MaxNcf - (p % 2)], niv |-> [p \in Slots |-> MaxNiv - (p % 2)]]

\* doubles of one record taken by slot p
SlotLen(lay, p) == lay.ncf[p] * lay.niv[p] * NcmOf(p)

\* the header of a well-formed file with the given slot table: offsets are
\* 1-based in the file and the first slot follows the record's two time tags
HeaderOf(lay, beg, inc, num) ==
    [beg |-> beg, end |-> RAdd(beg, RMul(RInt(NumRec), inc)), inc |-> inc,
     num |-> num, cau |-> RInt(2), cem |-> RInt(3), ver |-> 430,
     off |-> [p \in Slots |-> 3 + SumTo([q \in Slots |-> SlotLen(lay, q)], 0, p - 1)],
     ncf |-> lay.ncf, niv |-> lay.niv]

\* record size of a well-formed file
RecOf(lay) == SzDouble * (2 + SumTo([q \in Slots |-> SlotLen(lay, q)], 0, _NUM_JPL - 1))

FileBeg == RInt(2450120)
FileInc == RInt(4)

\* a complete file: two header records and NumRec data records
FullFile(lay, seed) ==
    [exists |-> TRUE, hdr |-> HeaderOf(lay, FileBeg, FileInc, BaseNum),
     len |-> (2 + NumRec) * RecOf(lay), seed |-> seed, mmapFails |-> FALSE, kind |-> "full"]

\* the files the model opens: complete ones, and damaged or absent ones
JplFiles ==
    { FullFile(UniformLayout, 1), FullFile(VariedLayout, 2) }
    \cup { [FullFile(UniformLayout, 1) EXCEPT !.exists = FALSE, !.kind = "missing"],
           [FullFile(UniformLayout, 1) EXCEPT !.len = 0, !.kind = "empty"],
           [FullFile(UniformLayout, 1) EXCEPT !.len = HeaderAt + 5 * SzDouble + SzInt32, !.kind = "shortHeader"],
           [FullFile(UniformLayout, 1) EXCEPT !.len = 2 * RecOf(UniformLayout), !.kind = "noRecords"],
           [FullFile(UniformLayout, 1) EXCEPT !.mmapFails = TRUE, !.kind = "mmapFails"],
           [FullFile(UniformLayout, 1) EXCEPT !.hdr.num = -1000, !.kind = "badNum"] }

\* the coefficient stored at double index idx of a file
FileDouble(seed, idx) == RInt(((idx * 7 + seed * 3) % 11) - 5)

\* what a read outside the mapping yields when it does not fault
Garbage(g, idx) == RInt(((idx * 5 + g) % 7) - 3)
GarbageSeeds == {0, 1}

\* the memory behind a handle's map pointer: the first len bytes are the file
Mem(len, seed, g) == [len |-> len, seed |-> seed, g |-> g]
InMap(mem, idx) == idx >= 0 /\ SzDouble * idx + SzDouble <= mem.len
ReadDouble(mem, idx) == IF InMap(mem, idx) THEN FileDouble(mem.seed, idx) ELSE Garbage(mem.g, idx)

(************************* struct _jpl_s ***********************************)
ZeroJpl ==
    [beg |-> RZero, end |-> RZero, inc |-> RZero, cau |-> RZero, cem |-> RZero,
     num |-> 0, ver |-> 0,
     off |-> [p \in Slots |-> 0], ncf |-> [p \in Slots |-> 0],
     niv |-> [p \in Slots |-> 0], ncm |-> [p \in Slots |-> 0],
     len |-> 0, rec |-> 0, map |-> "NULL"]

\* struct mpos_s
Sample(u, v, jde) == [u |-> u, v |-> v, jde |-> jde]

(***************************** jpl_work ************************************)
\* T[0..k] and S[0..k] as a sequence of <<T[p], S[p]>>, entry p+1 holding p
\* T[p] = 2 t0 T[p-1] - T[p-2] and S[p] = 2 t0 S[p-1] + 2 T[p-1] - S[p-2]
ChebNext(t0, p1, p2) ==
    <<RSub(RMul(RMul(RInt(2), t0), p1[1]), p2[1]),
      RSub(RAdd(RMul(RMul(RInt(2), t0), p1[2]), RMul(RInt(2), p1[1])), p2[2])>>

RECURSIVE ChebTab(_, _, _)
ChebTab(t0, ncf, tab) ==
    IF Len(tab) >= ncf THEN tab
    ELSE ChebTab(t0, ncf, Append(tab, ChebNext(t0, tab[Len(tab)], tab[Len(tab) - 1])))

RECURSIVE SumR(_, _, _)
SumR(g, lo, hi) == IF hi < lo THEN RZero ELSE RAdd(SumR(g, lo, hi - 1), g[hi])

\* the sub-interval index b = (int)(t0 * niv)
WorkB(niv, t0) == RTrunc(RMul(t0, RInt(niv)))

\* the sub-interval stride taken as ncf instead of ncf * ncm
WorkNMutNoNcm(ncm, ncf, b, m) == ncf * (m + b)

\* first flat index of component m's coefficients: n = ncf * (m + b * ncm)
WorkN(ncm, ncf, b, m) == ncf * (m + b * ncm)

\* the double indices jpl_work reads through P
WorkReads(P, ncm, ncf, niv, t0) ==
    { P + WorkN(ncm, ncf, WorkB(niv, t0), m) + p : m \in 0 .. (ncm - 1), p \in 0 .. (ncf - 1) }

\* the Chebyshev argument 2 * fmod(t0 * niv, 1) - 1
WorkX(niv, t0) == RSub(RMul(RInt(2), RFmod(RMul(t0, RInt(niv)), RInt(1))), RInt(1))

\* the velocity scale c = (niv * 2) / t1 / 86400
WorkC(niv, t1) == RDiv(RDiv(RInt(niv * 2), t1), RInt(SecPerDay))

\* T[] and S[] for the argument x: T[0] = 1, T[1] = x, S[0] = 0, S[1] = 1
ChebOf(x, ncf) == ChebTab(x, ncf, << <<RInt(1), RZero>>, <<x, RInt(1)>> >>)

\* the sums over p of T[p] * P[n+p] and of S[p] * P[n+p] * c
WorkSums(mem, P, ncm, ncf, b, tab, c) ==
    [u |-> [m \in 0 .. (ncm - 1) |->
              SumR([p \in 0 .. (ncf - 1) |->
                      RMul(tab[p + 1][1], ReadDouble(mem, P + WorkN(ncm, ncf, b, m) + p))], 0, ncf - 1)],
     v |-> [m \in 0 .. (ncm - 1) |->
              SumR([p \in 0 .. (ncf - 1) |->
                      RMul(RMul(tab[p + 1][2], ReadDouble(mem, P + WorkN(ncm, ncf, b, m) + p)), c)], 0, ncf - 1)]]

jpl_work(mem, P, ncm, ncf, niv, t0, t1) ==
    WorkSums(mem, P, ncm, ncf, WorkB(niv, t0), ChebOf(WorkX(niv, t0), ncf), WorkC(niv, t1))

(***************************** jpl_init ************************************)
\* read(fd, &field, sz) at file position pos: the field is set when all sz
\* bytes are there, and keeps the zero that memset left otherwise
ReadField(f, pos, sz, val, zero) == IF pos + sz <= f.len THEN val ELSE zero

\* bytes returned by that read
ReadCount(f, pos, sz) == IF pos + sz <= f.len THEN sz ELSE 0

\* mmap(NULL, len, ...) returns MAP_FAILED, never NULL, when it fails; a
\* mapping of length 0 fails
MmapResult(f) == IF f.mmapFails \/ f.len = 0 THEN "MAP_FAILED" ELSE "MAPPED"

\* file position after the reads of the first header part
PosAfterPart1(f) ==
    IF f.len >= HeaderAt + HeaderPart1 THEN HeaderAt + HeaderPart1
    ELSE IF f.len >= HeaderAt THEN f.len ELSE HeaderAt

\* the reads of off, ncf and niv of slot p, in the order made
TripleReads(p) ==
    << [field |-> "off", slot |-> p, sz |-> SzInt32], [field |-> "ncf", slot |-> p, sz |-> SzInt32],
       [field |-> "niv", slot |-> p, sz |-> SzInt32] >>

\* the reads of the loop for (p = 0; p < 12; p++), up to slot p
RECURSIVE TriplesTo(_)
TriplesTo(p) == IF p < 0 THEN <<>> ELSE TriplesTo(p - 1) \o TripleReads(p)

\* the reads jpl_init makes before it skips the constant names, in order:
\* beg, end, inc, num, cau, cem, the first 12 triples, ver, and off[12],
\* ncf[12], niv[12]
ReadOrder ==
    << [field |-> "beg", slot |-> -1, sz |-> SzDouble], [field |-> "end", slot |-> -1, sz |-> SzDouble],
       [field |-> "inc", slot |-> -1, sz |-> SzDouble], [field |-> "num", slot |-> -1, sz |-> SzInt32],
       [field |-> "cau", slot |-> -1, sz |-> SzDouble], [field |-> "cem", slot |-> -1, sz |-> SzDouble] >>
    \o TriplesTo(FirstTriples - 1)
    \o << [field |-> "ver", slot |-> -1, sz |-> SzInt32] >>
    \o TripleReads(FirstTriples)

\* the header fields as jpl_init leaves them in the struct, before the
\* offsets are adjusted
HeaderRead(f) ==
    LET h == f.hdr
        num == ReadField(f, HeaderAt + 3 * SzDouble, SzInt32, h.num, 0)
        t0 == HeaderAt + 5 * SzDouble + SzInt32
        tri(p) == t0 + p * 3 * SzInt32
        t12 == tri(FirstTriples) + SzInt32
        \* lseek(fd, 6 * (num - 400), SEEK_CUR)
        p2 == PosAfterPart1(f) + NameLen * (num - BaseNum)
        nominal == HeaderAt + HeaderPart1 + NameLen * (h.num - BaseNum)
        tail(p) == p2 + (p - 13) * 3 * SzInt32
        \* outside the header fields the header records are zero padding
        at(pos, val) == IF p2 = nominal THEN ReadField(f, pos, SzInt32, val, 0) ELSE 0
        fld(p, k, val) ==
            IF p < FirstTriples THEN ReadField(f, tri(p) + k * SzInt32, SzInt32, val, 0)
            ELSE IF p = FirstTriples THEN ReadField(f, t12 + k * SzInt32, SzInt32, val, 0)
            ELSE at(tail(p) + k * SzInt32, val)
    IN  [beg |-> ReadField(f, HeaderAt, SzDouble, h.beg, RZero),
         end |-> ReadField(f, HeaderAt + SzDouble, SzDouble, h.end, RZero),
         inc |-> ReadField(f, HeaderAt + 2 * SzDouble, SzDouble, h.inc, RZero),
         num |-> num,
         cau |-> ReadField(f, HeaderAt + 3 * SzDouble + SzInt32, SzDouble, h.cau, RZero),
         cem |-> ReadField(f, HeaderAt + 4 * SzDouble + SzInt32, SzDouble, h.cem, RZero),
         ver |-> ReadField(f, tri(FirstTriples), SzInt32, h.ver, 0),
         off |-> [p \in Slots |-> fld(p, 0, h.off[p])],
         ncf |-> [p \in Slots |-> fld(p, 1, h.ncf[p])],
         niv |-> [p \in Slots |-> fld(p, 2, h.niv[p])],
         seek2 |-> p2]

\* the sum ret of the byte counts of the 52 header reads
HeaderBytes(f) ==
    LET r == HeaderRead(f)
        part1 == IF f.len >= HeaderAt + HeaderPart1 THEN HeaderPart1
                 ELSE IF f.len >= HeaderAt THEN f.len - HeaderAt ELSE 0
        part2 == SumTo([k \in 0 .. 5 |-> ReadCount(f, r.seek2 + k * SzInt32, SzInt32)], 0, 5)
    IN  part1 + part2

\* the bytes of a complete header
HeaderFull == HeaderPart1 + 2 * 3 * SzInt32

\* jpl->rec = sizeof(double) * 2 + sum of sizeof(double) * ncf * niv * ncm
RecSize(ncf, niv, ncm) ==
    SzDouble * 2 + SumTo([p \in Slots |-> SzDouble * ncf[p] * niv[p] * ncm[p]], 0, _NUM_JPL - 1)

\* the struct jpl_init fills from the header fields r it read
InitStruct(f, r, map) ==
    [beg |-> r.beg, end |-> r.end, inc |-> r.inc, cau |-> r.cau, cem |-> r.cem,
     num |-> r.num, ver |-> r.ver,
     off |-> [p \in Slots |-> r.off[p] - 1],
     ncf |-> r.ncf, niv |-> r.niv, ncm |-> [p \in Slots |-> NcmOf(p)],
     len |-> f.len, rec |-> RecSize(r.ncf, r.niv, [p \in Slots |-> NcmOf(p)]), map |-> map]

\* the paths of jpl_init after the header reads: the second lseek fails, the
\* map is NULL, or the handle is returned
InitFrom(f, r, map) ==
    IF r.seek2 < 0 \/ map = "NULL" THEN [ret |-> "NULL", jpl |-> ZeroJpl, mapped |-> FALSE]
    ELSE [ret |-> "PTR", jpl |-> InitStruct(f, r, map), mapped |-> (map = "MAPPED")]

\* the descriptors jpl_init leaves open: open() failed and there is none, or
\* the one it opened is closed before the handle is returned and on the
\* error path alike
FdsLeftOpen(f) == IF ~f.exists THEN 0 ELSE 1 - 1

\* jpl_init on file f: ret is "NULL" or "PTR", jpl the struct behind PTR,
\* mapped whether a mapping was made
jpl_init(f) ==
    IF ~f.exists THEN [ret |-> "NULL", jpl |-> ZeroJpl, mapped |-> FALSE]
    ELSE InitFrom(f, HeaderRead(f), MmapResult(f))

(************************* the body routines *******************************)
vecpos_off(u, v, w) == [p \in 0 .. 2 |-> RAdd(u[p], RMul(v[p], w))]
vecpos_set(v) == [p \in 0 .. 2 |-> v[p]]
vecpos_nul == [p \in 0 .. 2 |-> RZero]
vecpos_div(u, v) == [p \in 0 .. 2 |-> RDiv(u[p], v)]

_bar(jpl, mem, z, t) == [u |-> vecpos_nul, v |-> vecpos_nul]
_sun(jpl, mem, z, t) == jpl_work(mem, z + jpl.off[JPL_SUN], jpl.ncm[JPL_SUN], jpl.ncf[JPL_SUN], jpl.niv[JPL_SUN], t, jpl.inc)
_emb(jpl, mem, z, t) == jpl_work(mem, z + jpl.off[JPL_EMB], jpl.ncm[JPL_EMB], jpl.ncf[JPL_EMB], jpl.niv[JPL_EMB], t, jpl.inc)
_mer(jpl, mem, z, t) == jpl_work(mem, z + jpl.off[JPL_MER], jpl.ncm[JPL_MER], jpl.ncf[JPL_MER], jpl.niv[JPL_MER], t, jpl.inc)
_ven(jpl, mem, z, t) == jpl_work(mem, z + jpl.off[JPL_VEN], jpl.ncm[JPL_VEN], jpl.ncf[JPL_VEN], jpl.niv[JPL_VEN], t, jpl.inc)
_mar(jpl, mem, z, t) == jpl_work(mem, z + jpl.off[JPL_MAR], jpl.ncm[JPL_MAR], jpl.ncf[JPL_MAR], jpl.niv[JPL_MAR], t, jpl.inc)
_jup(jpl, mem, z, t) == jpl_work(mem, z + jpl.off[JPL_JUP], jpl.ncm[JPL_JUP], jpl.ncf[JPL_JUP], jpl.niv[JPL_JUP], t, jpl.inc)
_sat(jpl, mem, z, t) == jpl_work(mem, z + jpl.off[JPL_SAT], jpl.ncm[JPL_SAT], jpl.ncf[JPL_SAT], jpl.niv[JPL_SAT], t, jpl.inc)
_ura(jpl, mem, z, t) == jpl_work(mem, z + jpl.off[JPL_URA], jpl.ncm[JPL_URA], jpl.ncf[JPL_URA], jpl.niv[JPL_URA], t, jpl.inc)
_nep(jpl, mem, z, t) == jpl_work(mem, z + jpl.off[JPL_NEP], jpl.ncm[JPL_NEP], jpl.ncf[JPL_NEP], jpl.niv[JPL_NEP], t, jpl.inc)

\* the Earth read as if the Earth-Moon barycentre slot were its own
_earMutEmbOnly(jpl, mem, z, t) == _emb(jpl, mem, z, t)

\* pos = emb, then pos += lun * w, for position and velocity
EarFrom(emb, lun, w) ==
    [u |-> vecpos_off(vecpos_set(emb.u), lun.u, w),
     v |-> vecpos_off(vecpos_set(emb.v), lun.v, w)]

_ear(jpl, mem, z, t) ==
    EarFrom(jpl_work(mem, z + jpl.off[JPL_EMB], jpl.ncm[JPL_EMB], jpl.ncf[JPL_EMB], jpl.niv[JPL_EMB], t, jpl.inc),
            jpl_work(mem, z + jpl.off[JPL_LUN], jpl.ncm[JPL_LUN], jpl.ncf[JPL_LUN], jpl.niv[JPL_LUN], t, jpl.inc),
            RDiv(RInt(-1), RAdd(RInt(1), jpl.cem)))

\* the table of function pointers _help[_NUM_TEST]
_help(n, jpl, mem, z, t) ==
    CASE n = PLAN_BAR -> _bar(jpl, mem, z, t)
      [] n = PLAN_SOL -> _sun(jpl, mem, z, t)
      [] n = PLAN_EAR -> _ear(jpl, mem, z, t)
      [] n = PLAN_EMB -> _emb(jpl, mem, z, t)
      [] n = PLAN_MER -> _mer(jpl, mem, z, t)
      [] n = PLAN_VEN -> _ven(jpl, mem, z, t)
      [] n = PLAN_MAR -> _mar(jpl, mem, z, t)
      [] n = PLAN_JUP -> _jup(jpl, mem, z, t)
      [] n = PLAN_SAT -> _sat(jpl, mem, z, t)
      [] n = PLAN_URA -> _ura(jpl, mem, z, t)
      [] n = PLAN_NEP -> _nep(jpl, mem, z, t)

\* the file slots body n is evaluated from
SlotsOf(n) ==
    CASE n = PLAN_BAR -> {}
      [] n = PLAN_SOL -> {JPL_SUN}
      [] n = PLAN_EAR -> {JPL_EMB, JPL_LUN}
      [] n = PLAN_EMB -> {JPL_EMB}
      [] n = PLAN_MER -> {JPL_MER}
      [] n = PLAN_VEN -> {JPL_VEN}
      [] n = PLAN_MAR -> {JPL_MAR}
      [] n = PLAN_JUP -> {JPL_JUP}
      [] n = PLAN_SAT -> {JPL_SAT}
      [] n = PLAN_URA -> {JPL_URA}
      [] n = PLAN_NEP -> {JPL_NEP}

(***************************** jpl_calc ************************************)
\* the range and map check of jpl_calc
CalcRejects(jpl, jde) == RLt(jde, jpl.beg) \/ RLt(jpl.end, jde) \/ jpl.map = "NULL"

\* blk = (u_int32_t)((jde - beg) / inc)
CalcBlk(jpl, jde) == RTrunc(RDiv(RSub(jde, jpl.beg), jpl.inc))

\* t = fmod(jde - beg, inc) / inc
CalcT(jpl, jde) == RDiv(RFmod(RSub(jde, jpl.beg), jpl.inc), jpl.inc)

\* z = map + (blk + 2) * rec, as an index of doubles from the map's start
CalcZ(jpl, jde) == ((CalcBlk(jpl, jde) + 2) * jpl.rec) \div SzDouble

\* the double indices the evaluation of bodies n and m reads
CalcReads(jpl, jde, n, m) ==
    UNION { WorkReads(CalcZ(jpl, jde) + jpl.off[s], jpl.ncm[s], jpl.ncf[s], jpl.niv[s], CalcT(jpl, jde)) :
            s \in SlotsOf(n) \cup SlotsOf(m) }

\* the reference body's state is not taken off
CalcNowMutNoRef(pos, ref, jde) == Sample(pos.u, pos.v, jde)

\* now->u[p] = pos.u[p] - ref.u[p], now->v[p] = pos.v[p] - ref.v[p], now->jde = jde
CalcNow(pos, ref, jde) ==
    Sample([p \in 0 .. 2 |-> RSub(pos.u[p], ref.u[p])],
           [p \in 0 .. 2 |-> RSub(pos.v[p], ref.v[p])], jde)

\* jpl_calc(pl, now, jde, n, m): pl and now are "NULL" or "PTR", jpl is the
\* struct behind pl, now0 the sample behind now, mem the memory behind map
jpl_calc(pl, jpl, now, now0, mem, jde, n, m) ==
    IF pl = "NULL" \/ now = "NULL" THEN [ret |-> -1, now |-> now0]
    ELSE IF CalcRejects(jpl, jde) THEN [ret |-> -1, now |-> now0]
    ELSE [ret |-> 0,
          now |-> CalcNow(_help(n, jpl, mem, CalcZ(jpl, jde), CalcT(jpl, jde)),
                          _help(m, jpl, mem, CalcZ(jpl, jde), CalcT(jpl, jde)), jde)]

(***************************** state ***************************************)
VARIABLES
    file,       \* the ephemeris file jpl_init opens
    pl,         \* the caller's handle pointer: "NULL" or "PTR"
    heap,       \* the struct's allocation: "none", "live" or "freed"
    jpl,        \* the bytes of the struct behind pl
    mapped,     \* whether the handle's mapping exists
    now,        \* the caller's struct mpos_s
    nowArg,     \* the output pointer of the last jpl_calc: "NULL" or "PTR"
    ret,        \* the last return value
    op,         \* the last call made
    crashed,    \* the process was killed by a fault
    qjde, qn, qm, \* the query a resolver scenario makes
    ap,         \* the force's parameters: a set of <<name, value>>
    simt,       \* sim->t
    particles,  \* particles[0..N-1]: position and acceleration
    pc,         \* where rebx_ephemeris_forces stands
    i,          \* its loop index
    loc,        \* its locals m, x, y, z
    src,        \* the index ephem last produced loc for (-1: none)
    calcRet,    \* what the jpl_calc that produced loc returned; ephem drops it
    acc0,       \* the accelerations when the call began
    pulls,      \* the pulls applied so far: <<index, producing index, m, x, y, z>>
    opens,      \* handles opened during the call
    closes,     \* handles closed during the call
    log,        \* what was written to stderr
    tstart, tstep, trange, \* integration_function's time arguments
    nsteps,     \* its local nsteps
    j,          \* its loop index
    rt,         \* r->t
    dtLast,     \* r->dt_last_done
    last,       \* its local tstate last
    outstate,   \* the caller's array: index -> the entry written there
    nOut,       \* *n_out (-1: not set)
    writes,     \* the writes to outstate so far, one record per writer call
    opc         \* where integration_function stands

varsJ == <<file, pl, heap, jpl, mapped, now, nowArg, ret, op, crashed>>
varsQ == <<qjde, qn, qm>>

varsF == <<ap, simt, particles, pc, i, loc, src, calcRet, acc0, pulls, opens, closes, log>>
varsO == <<tstart, tstep, trange, nsteps, j, rt, dtLast, last, outstate, nOut, writes, opc>>
varsRest == <<varsF, varsO>>

vars == <<varsJ, varsQ, varsRest>>

\* what the caller's sample holds before any call
PriorNow == Sample([p \in 0 .. 2 |-> RInt(7)], [p \in 0 .. 2 |-> RInt(7)], RInt(7))

Bodies == 0 .. (_NUM_TEST - 1)

\* query times: before the file, at its start, inside records, at its end
\* and after it (in half days from the file's start)
QueryHalfDays == {-2, 0, 1, 14, 8 * NumRec, 8 * NumRec + 2}
QueryTimes == { RAdd(FileBeg, Rat(k, 2)) : k \in QueryHalfDays }

\* the queries made of a file: every pair of bodies of the complete file of
\* varied layout, and every body against the barycentre, both ways, of the
\* others
QueriesOf(f) ==
    { <<t, n, m>> \in QueryTimes \X Bodies \X Bodies :
        (f.kind = "full" /\ f.seed = 2) \/ m = PLAN_BAR \/ n = PLAN_BAR }

\* the force engine at rest
IdleF ==
    /\ ap = {} /\ simt = RZero /\ particles = <<>> /\ pc = "idle" /\ i = 0
    /\ loc = [m |-> RZero, x |-> RZero, y |-> RZero, z |-> RZero] /\ src = -1 /\ calcRet = 0
    /\ acc0 = <<>> /\ pulls = <<>> /\ opens = 0 /\ closes = 0 /\ log = {}

\* no integration under way
IdleO ==
    /\ tstart = RZero /\ tstep = RInt(1) /\ trange = RZero /\ nsteps = 0 /\ j = 0
    /\ rt = RZero /\ dtLast = RZero /\ last = [t |-> RZero]
    /\ outstate = <<>> /\ nOut = -1 /\ writes = <<>> /\ opc = "idle"

InitJ ==
    /\ file \in JplFiles
    /\ \E q \in QueriesOf(file) : qjde = q[1] /\ qn = q[2] /\ qm = q[3]
    /\ IdleF /\ IdleO
    /\ pl = "NULL" /\ heap = "none" /\ jpl = ZeroJpl /\ mapped = FALSE
    /\ now = PriorNow /\ nowArg = "NULL" /\ ret = 0 /\ op = "none" /\ crashed = FALSE

(*********************** the handle's operations ***************************)
\* pl = jpl_init()
JplInit ==
    /\ ~crashed /\ op = "none"
    /\ \E r \in {jpl_init(file)} :
           /\ pl' = r.ret
           /\ jpl' = r.jpl
           /\ heap' = IF r.ret = "PTR" THEN "live" ELSE "none"
           /\ mapped' = r.mapped
    /\ op' = "init" /\ ret' = 0
    /\ UNCHANGED <<file, now, nowArg, crashed, varsQ, varsRest>>

\* the memory a read through jpl.map reaches
MemOf(g) == IF heap = "live" /\ mapped THEN Mem(jpl.len, file.seed, g) ELSE Mem(0, file.seed, g)

\* some read of the evaluation falls outside the mapping
WildRead(nowp, jde, n, m) ==
    /\ pl = "PTR" /\ nowp = "PTR" /\ ~CalcRejects(jpl, jde)
    /\ \E idx \in CalcReads(jpl, jde, n, m) : ~InMap(MemOf(0), idx)

\* how an evaluation can end: in order, or, when it reads outside the
\* mapping, with a fault or with whatever the memory there holds
Outcomes(wild) ==
    IF wild THEN { [fault |-> TRUE, g |-> 0] } \cup { [fault |-> FALSE, g |-> g] : g \in GarbageSeeds }
    ELSE { [fault |-> FALSE, g |-> 0] }

\* jpl_calc(pl, nowp, jde, n, m); a read outside the mapping either faults
\* or yields whatever the memory there holds
DoCalc(nowp, jde, n, m) ==
    \E o \in Outcomes(WildRead(nowp, jde, n, m)) :
        IF o.fault
        THEN crashed' = TRUE /\ UNCHANGED <<now, ret>>
        ELSE /\ crashed' = crashed
             /\ \E r \in {jpl_calc(pl, jpl, nowp, now, MemOf(o.g), jde, n, m)} :
                   now' = r.now /\ ret' = r.ret

\* ret = jpl_calc(pl, &now or NULL, qjde, qn, qm)
JplCalc ==
    /\ ~crashed /\ op # "none"
    /\ \E nowp \in {"NULL", "PTR"} : DoCalc(nowp, qjde, qn, qm) /\ nowArg' = nowp
    /\ op' = "calc"
    /\ UNCHANGED <<file, pl, heap, jpl, mapped, varsQ, varsRest>>

\* what the freed struct's bytes hold: the zeros of the memset, or, the
\* memset being a dead store before free, what they held before
FreedBytes(old) == {ZeroJpl, old}

\* jpl_free returns 0 without releasing the map or the struct
DoFreeMutLeak == ret' = (IF pl = "NULL" THEN -1 ELSE 0) /\ UNCHANGED <<heap, jpl, mapped>>

\* ret = jpl_free(pl)
DoFree ==
    IF pl = "NULL" THEN ret' = -1 /\ UNCHANGED <<heap, jpl, mapped>>
    ELSE /\ mapped' = FALSE
         /\ jpl' \in FreedBytes(jpl)
         /\ heap' = "freed"
         /\ ret' = 0

JplFree ==
    /\ ~crashed /\ op # "none" /\ heap # "freed"
    /\ DoFree
    /\ op' = "free"
    /\ UNCHANGED <<file, pl, now, nowArg, crashed, varsQ, varsRest>>

NextJ == JplInit \/ JplCalc \/ JplFree

SpecJpl == InitJ /\ [][NextJ]_vars

(*********************** the force engine **********************************)
\* the grid a result that is not exactly representable is rounded to
FRes == 64
\* particles handed to the force
NParticles == 2
\* largest N_ephem tried besides the driver's
MaxNEphem == 6
\* N_ephem as the example driver sets it
DriverNEphem == 11

\* floor(q * k) for a positive whole k
FloorScaled(q, k) == (q[1] \div q[2]) * k + ((q[1] % q[2]) * k) \div q[2]

FRound(q) == Rat(FloorScaled(q, FRes), FRes)
FMul(a, b) == FRound(RMul(a, b))
FDiv(a, b) == FRound(RDiv(a, b))

\* largest k with k * k <= n, for lo * lo <= n < hi * hi
RECURSIVE ISqrt(_, _, _)
ISqrt(n, lo, hi) ==
    IF hi - lo <= 1 THEN lo
    ELSE LET mid == (lo + hi) \div 2
         IN  IF mid * mid <= n THEN ISqrt(n, mid, hi) ELSE ISqrt(n, lo, mid)

\* sqrt(q), rounded to the grid
FSqrt(q) == Rat(ISqrt(FloorScaled(q, FRes * FRes), 0, 46340), FRes)

\* sim->G, in units that keep the pulls above the grid
SimG == RInt(10000000)

\* t = 0 is Julian day 2450123.7
JdeEpoch == Rat(24501237, 10)

\* const double mu = 1.e-3, m0 = 1 - mu, m1 = mu
Mu == Rat(1, 1000)
M0 == RSub(RInt(1), Mu)
M1 == Mu

\* the body ephem resolves for index k, and the mass it assigns
EphemBody(k) ==
    CASE k = 0 -> PLAN_SOL [] k = 1 -> PLAN_JUP [] k = 2 -> PLAN_SAT
      [] k = 3 -> PLAN_URA [] k = 4 -> PLAN_NEP
EphemMass(k) == IF k = 0 THEN M0 ELSE M1
\* the indices ephem has a branch for
EphemHandles(k) == k \in 0 .. 4

\* what an uninitialised struct mpos_s on ephem's stack may hold
UninitSamples ==
    { Sample([p \in 0 .. 2 |-> RInt(k)], [p \in 0 .. 2 |-> RInt(k)], RInt(k)) : k \in {2, 4} }

\* rebx_get_param(sim->extras, force->ap, name): 0 stands for NULL
HasParam(name) == \E e \in ap : e[1] = name
GetParam(name) == (CHOOSE e \in ap : e[1] = name)[2]

Parts == 0 .. (NParticles - 1)

\* where particle j starts, away from every body
StartAt(q) == [x |-> RInt(20 + 3 * q), y |-> RInt(-10 * q), z |-> RInt(5)]

InitF ==
    /\ file \in { f \in JplFiles : f.kind \in {"full", "missing", "mmapFails"} }
    /\ pl = "NULL" /\ heap = "none" /\ jpl = ZeroJpl /\ mapped = FALSE
    /\ now = PriorNow /\ nowArg = "NULL" /\ ret = 0 /\ op = "none" /\ crashed = FALSE
    /\ qjde = RZero /\ qn = 0 /\ qm = 0
    /\ ap \in {{}} \cup { {<<"N_ephem", k>>} : k \in (0 .. MaxNEphem) \cup {DriverNEphem} }
    /\ simt \in { Rat(3, 10), Rat(13, 10), RInt(-10), Rat(83, 10) }
    /\ \E a \in {0, 5} :
         particles = [q \in Parts |-> [x |-> StartAt(q).x, y |-> StartAt(q).y, z |-> StartAt(q).z,
                                       ax |-> RInt(a), ay |-> RInt(-a), az |-> RInt(a * q)]]
    /\ pc = "idle" /\ i = 0
    /\ loc = [m |-> RZero, x |-> RZero, y |-> RZero, z |-> RZero] /\ src = -1 /\ calcRet = 0
    /\ acc0 = <<>> /\ pulls = <<>> /\ opens = 0 /\ closes = 0 /\ log = {}
    /\ IdleO

MissingMsg == "REBOUNDx Error: Need to set N_ephem for ephemeris_forces"

\* the check dropped its return: the loop is entered without N_ephem
EntryPcMutNoReturn(has, n) == IF has /\ ~(0 < n) THEN "returned" ELSE "ephem_init"

\* where the function goes from its entry: it returns when N_ephem is NULL,
\* and when the loop test i < *N_ephem fails at i = 0
EntryPc(has, n) == IF ~has THEN "returned" ELSE IF 0 < n THEN "ephem_init" ELSE "returned"

\* rebx_ephemeris_forces is entered: the N_ephem check and the loop's start
Call ==
    /\ pc = "idle"
    /\ acc0' = [q \in Parts |-> [ax |-> particles[q].ax, ay |-> particles[q].ay, az |-> particles[q].az]]
    /\ log' = IF HasParam("N_ephem") THEN log ELSE log \cup {MissingMsg}
    /\ pc' = EntryPc(HasParam("N_ephem"), IF HasParam("N_ephem") THEN GetParam("N_ephem") ELSE 0)
    /\ i' = 0
    /\ UNCHANGED <<varsJ, varsQ, varsO, ap, simt, particles, loc, src, calcRet, pulls, opens, closes>>

\* ephem(i, ...): pl = jpl_init(), and exit(EXIT_FAILURE) when it is NULL;
\* the local sample now is not initialised
EphemInit ==
    /\ pc = "ephem_init"
    /\ \E r \in {jpl_init(file)} :
           /\ pl' = r.ret /\ jpl' = r.jpl /\ mapped' = r.mapped
           /\ heap' = IF r.ret = "PTR" THEN "live" ELSE "none"
           /\ IF r.ret = "NULL"
              THEN /\ log' = log \cup {"could not load DE430 file"}
                   /\ pc' = "exited" /\ opens' = opens /\ now' = now
              ELSE /\ log' = log /\ pc' = "ephem_calc" /\ opens' = opens + 1
                   /\ now' \in UninitSamples
    /\ op' = "init" /\ ret' = 0
    /\ UNCHANGED <<file, nowArg, crashed, varsQ, varsO, ap, simt, particles, i, loc, src, calcRet, acc0, pulls, closes>>

\* ephem(i, ...): the branch of index i: the mass, jpl_calc of the body
\* against the barycentre, its result unchecked, and the division by cau
EphemCalc ==
    /\ pc = "ephem_calc"
    /\ IF EphemHandles(i)
       THEN /\ DoCalc("PTR", RAdd(simt, JdeEpoch), EphemBody(i), PLAN_BAR)
            /\ op' = "calc" /\ nowArg' = "PTR"
            /\ IF crashed'
               THEN pc' = "killed" /\ UNCHANGED <<loc, src, calcRet>>
               ELSE /\ LET u == vecpos_div(now'.u, jpl.cau)
                       IN  loc' = [m |-> EphemMass(i), x |-> u[0], y |-> u[1], z |-> u[2]]
                    /\ src' = i /\ calcRet' = ret'
                    /\ pc' = "ephem_free"
       ELSE /\ pc' = "ephem_free"
            /\ UNCHANGED <<now, nowArg, ret, op, crashed, loc, src, calcRet>>
    /\ UNCHANGED <<file, pl, heap, jpl, mapped, varsQ, varsO, ap, simt, particles, i, acc0, pulls, opens, closes, log>>

\* ephem(i, ...): jpl_free(pl)
EphemFree ==
    /\ pc = "ephem_free"
    /\ DoFree
    /\ op' = "free"
    /\ closes' = closes + 1
    /\ pc' = "pull"
    /\ UNCHANGED <<file, pl, now, nowArg, crashed, varsQ, varsO, ap, simt, particles, i, loc, src, calcRet, acc0, pulls, opens, log>>

\* prefac = G * m / (_r * _r * _r) for the particle at p
Prefac(p, G, l) ==
    LET dx == RSub(p.x, l.x)
        dy == RSub(p.y, l.y)
        dz == RSub(p.z, l.z)
        r == FSqrt(RAdd(RAdd(FMul(dx, dx), FMul(dy, dy)), FMul(dz, dz)))
    IN  FDiv(FMul(G, l.m), FMul(FMul(r, r), r))

\* the pull written over the acceleration instead of added to it
PullOnMutOverwrite(p, G, l) ==
    [p EXCEPT !.ax = RNeg(FMul(Prefac(p, G, l), RSub(p.x, l.x))),
              !.ay = RNeg(FMul(Prefac(p, G, l), RSub(p.y, l.y))),
              !.az = RNeg(FMul(Prefac(p, G, l), RSub(p.z, l.z)))]

\* particles[j].ax -= prefac*dx, and ay, az alike
PullOn(p, G, l) ==
    [p EXCEPT !.ax = RSub(p.ax, FMul(Prefac(p, G, l), RSub(p.x, l.x))),
              !.ay = RSub(p.ay, FMul(Prefac(p, G, l), RSub(p.y, l.y))),
              !.az = RSub(p.az, FMul(Prefac(p, G, l), RSub(p.z, l.z)))]

\* the inner loop over the N particles with the m, x, y, z ephem left, then
\* i++ and the loop test
Pull ==
    /\ pc = "pull"
    /\ particles' = [q \in Parts |-> PullOn(particles[q], SimG, loc)]
    /\ pulls' = Append(pulls, [i |-> i, src |-> src, ret |-> calcRet, loc |-> loc])
    /\ i' = i + 1
    /\ pc' = IF i + 1 < GetParam("N_ephem") THEN "ephem_init" ELSE "returned"
    /\ UNCHANGED <<varsJ, varsQ, varsO, ap, simt, loc, src, calcRet, acc0, opens, closes, log>>

NextF == Call \/ EphemInit \/ EphemCalc \/ EphemFree \/ Pull

Spec == InitF /\ [][NextF]_vars

(*********************** the integration driver ****************************)
\* internal steps reb_integrate may take to reach the time asked for
MaxSub == 2
\* the largest trange tried, in units of the smallest |tstep|
MaxSpan == 3

\* static const double h[9], the Gauss-Radau spacings, to three decimals
h ==
    [n \in 0 .. 8 |->
        CASE n = 0 -> RZero            [] n = 1 -> Rat(56, 1000)  [] n = 2 -> Rat(180, 1000)
          [] n = 3 -> Rat(353, 1000)   [] n = 4 -> Rat(547, 1000)  [] n = 5 -> Rat(734, 1000)
          [] n = 6 -> Rat(885, 1000)   [] n = 7 -> Rat(978, 1000)  [] n = 8 -> RInt(1)]

RAbs(a) == <<Abs(a[1]), a[2]>>

\* int nsteps = fabs(trange/tstep) + 1
NStepsOf(range, step) == RTrunc(RAdd(RAbs(RDiv(range, step)), RInt(1)))

\* the output times do not advance
TimesAtMutFixed(k) == tstart

\* times[k] = tstart + k*tstep
TimesAt(k) == RAdd(tstart, RMul(RInt(k), tstep))

\* the first entry a call of store_function for step k writes: 8*(k-1)
StoreBaseMutSeven(k) == 7 * (k - 1)
StoreBase(k) == 8 * (k - 1)

\* the sizes the last completed internal step may have had when reb_integrate
\* has advanced r->t by delta in one or more steps
LastStepSizes(delta) == { RDiv(delta, RInt(k)) : k \in 1 .. MaxSub }

\* outstate with the entries of e written over it
Written(e) == [k \in (DOMAIN outstate) \cup (DOMAIN e) |-> IF k \in DOMAIN e THEN e[k] ELSE outstate[k]]

\* the entries store_function(r, outstate, last, base) writes: outstate[base]
\* from last, and outstate[base+n] for n = 1..7 with the time
\* r->t + r->dt_last_done*(h[n] - 1) and the expansion about last, whose
\* argument s[0] = r->dt_last_done*h[n] puts the predicted state at the
\* time last.t + s[0]
StoreEntries(base) ==
    [k \in base .. (base + 7) |->
        IF k = base
        THEN [t |-> last.t, n |-> 0, about |-> last.t, at |-> last.t, step |-> j]
        ELSE [t |-> RAdd(rt, RMul(dtLast, RSub(h[k - base], RInt(1)))),
              n |-> k - base, about |-> last.t,
              at |-> RAdd(last.t, RMul(dtLast, h[k - base])), step |-> j]]

InitO ==
    /\ file \in { f \in JplFiles : f.kind = "missing" }
    /\ pl = "NULL" /\ heap = "none" /\ jpl = ZeroJpl /\ mapped = FALSE
    /\ now = PriorNow /\ nowArg = "NULL" /\ ret = 0 /\ op = "none" /\ crashed = FALSE
    /\ qjde = RZero /\ qn = 0 /\ qm = 0
    /\ IdleF
    /\ tstart \in { RInt(0), RInt(10) }
    /\ tstep \in { RInt(1), RInt(2), RInt(-1), Rat(1, 2) }
    /\ trange \in { Rat(k, 2) : k \in (-2 * MaxSpan) .. (2 * MaxSpan) }
    /\ nsteps = 0 /\ j = 0 /\ rt = RZero /\ dtLast = RZero /\ last = [t |-> RZero]
    /\ outstate = <<>> /\ nOut = -1 /\ writes = <<>> /\ opc = "idle"

\* integration_function up to its loop: nsteps, r->t = tstart, outstate[0],
\* and reb_integrate(r, times[0]), which has nowhere to go
IntegrationBegin ==
    /\ opc = "idle"
    /\ nsteps' = NStepsOf(trange, tstep)
    /\ rt' = tstart
    /\ outstate' = Written([k \in {0} |-> [t |-> tstart, n |-> 0, about |-> tstart, at |-> tstart, step |-> 0]])
    /\ writes' = Append(writes, [by |-> "integration_function", step |-> 0, idx |-> {0}])
    /\ j' = 1
    /\ opc' = "loop"
    /\ UNCHANGED <<varsJ, varsQ, varsF, tstart, tstep, trange, dtLast, last, nOut>>

\* the loop body up to store_function: last = the state at r->t, then
\* reb_integrate(r, times[j])
LoopIntegrate ==
    /\ opc = "loop" /\ j < nsteps
    /\ last' = [t |-> rt]
    /\ rt' = TimesAt(j)
    /\ dtLast' \in LastStepSizes(RSub(TimesAt(j), rt))
    /\ opc' = "store"
    /\ UNCHANGED <<varsJ, varsQ, varsF, tstart, tstep, trange, nsteps, j, outstate, nOut, writes>>

\* store_function(r, outstate, last, 8*(j-1)), then j++
LoopStore ==
    /\ opc = "store"
    /\ outstate' = Written(StoreEntries(StoreBase(j)))
    /\ writes' = Append(writes, [by |-> "store_function", step |-> j,
                                 idx |-> DOMAIN StoreEntries(StoreBase(j))])
    /\ j' = j + 1
    /\ opc' = "loop"
    /\ UNCHANGED <<varsJ, varsQ, varsF, tstart, tstep, trange, nsteps, rt, dtLast, last, nOut>>

\* the loop ends: *n_out = (nsteps-1)*8; return(1)
IntegrationReturn ==
    /\ opc = "loop" /\ ~(j < nsteps)
    /\ nOut' = (nsteps - 1) * 8
    /\ opc' = "returned"
    /\ UNCHANGED <<varsJ, varsQ, varsF, tstart, tstep, trange, nsteps, j, rt, dtLast, last, outstate, writes>>

NextO == IntegrationBegin \/ LoopIntegrate \/ LoopStore \/ IntegrationReturn

SpecOut == InitO /\ [][NextO]_vars

(*************************** properties ************************************)
\* C1: when rebx_ephemeris_forces is entered without N_ephem it writes the
\* error message and returns, no ephemeris file is opened, and the
\* acceleration of every particle is what it was when the call began
C1_MissingParamReturns ==
    (pc # "idle" /\ ~HasParam("N_ephem")) =>
        /\ pc = "returned"
        /\ MissingMsg \in log
        /\ opens = 0 /\ op = "none" /\ pl = "NULL"
        /\ \A q \in Parts :
              /\ particles[q].ax = acc0[q].ax
              /\ particles[q].ay = acc0[q].ay
              /\ particles[q].az = acc0[q].az

\* a call without N_ephem has returned, the accelerations being nonzero
C1_Witness ==
    pc = "returned" /\ ~HasParam("N_ephem") /\ MissingMsg \in log /\ particles[0].ax # RZero

\* C2: every pull applied for index i uses the mass and position that ephem
\* produced for index i itself
C2_PullUsesOwnBody ==
    \A k \in 1 .. Len(pulls) : pulls[k].src = pulls[k].i

\* the sum of the pulls 1..k on the particle at p along one axis, each
\* prefac*d with the m, x, y, z that were in force for that index
RECURSIVE PullSum(_, _, _)
PullSum(p, axis, k) ==
    IF k = 0 THEN RZero
    ELSE RAdd(PullSum(p, axis, k - 1),
              FMul(Prefac(p, SimG, pulls[k].loc),
                   CASE axis = "x" -> RSub(p.x, pulls[k].loc.x)
                     [] axis = "y" -> RSub(p.y, pulls[k].loc.y)
                     [] axis = "z" -> RSub(p.z, pulls[k].loc.z)))

\* C3: with N_ephem present, when rebx_ephemeris_forces has returned there
\* was one pull per index 0..N_ephem-1, and each particle's acceleration is
\* its acceleration before the call minus the sum of prefac*d over the pulls
C3_PullsAreAdded ==
    (pc = "returned" /\ HasParam("N_ephem")) =>
        /\ Len(pulls) = (IF GetParam("N_ephem") > 0 THEN GetParam("N_ephem") ELSE 0)
        /\ \A k \in 1 .. Len(pulls) : pulls[k].i = k - 1
        /\ \A q \in Parts :
              /\ particles[q].ax = RSub(acc0[q].ax, PullSum(particles[q], "x", Len(pulls)))
              /\ particles[q].ay = RSub(acc0[q].ay, PullSum(particles[q], "y", Len(pulls)))
              /\ particles[q].az = RSub(acc0[q].az, PullSum(particles[q], "z", Len(pulls)))

\* a call with several bodies has returned, having changed an acceleration
\* that was not zero before
C3_Witness ==
    /\ pc = "returned" /\ Len(pulls) >= 2
    /\ acc0[0].ax # RZero /\ particles[0].ax # acc0[0].ax

\* jpl_calc's arguments pass its checks
CalcAccepts(jde) ==
    pl = "PTR" /\ nowArg' = "PTR" /\ ~CalcRejects(jpl, jde)

\* C4: a jpl_calc on a handle that was not freed returns -1 and leaves the
\* sample alone when an argument is NULL, the time is out of range or the
\* map is NULL, and otherwise returns 0 with the sample's jde set
C4_CalcContract ==
    [][(op' = "calc" /\ heap # "freed") =>
          /\ ~crashed'
          /\ IF CalcAccepts(qjde)
             THEN ret' = 0 /\ now'.jde = qjde
             ELSE ret' = -1 /\ now' = now]_vars

\* C5: a handle is returned only for a file long enough for the two header
\* records and one record of the computed size
C5_InitChecksSize ==
    (op = "init" /\ pl = "PTR") => file.len >= 3 * jpl.rec

\* C6: a handle is returned only when the file opened, every header read
\* was complete and the mapping succeeded
C6_InitChecksReads ==
    (op = "init" /\ pl = "PTR") =>
        file.exists /\ HeaderBytes(file) = HeaderFull /\ MmapResult(file) = "MAPPED"

\* C7: after jpl_free a jpl_calc on the handle returns -1 and writes no
\* sample, and jpl_free of NULL returns -1 and changes nothing
C7_FreedHandleFails ==
    [][/\ (op' = "calc" /\ heap = "freed") => (~crashed' /\ ret' = -1 /\ now' = now)
       /\ (op' = "free" /\ pl = "NULL") =>
             (ret' = -1 /\ heap' = heap /\ jpl' = jpl /\ mapped' = mapped)]_vars

\* the last jpl_calc answered from inside the mapping of a complete file
ValidAnswer ==
    /\ op = "calc" /\ ret = 0 /\ nowArg = "PTR" /\ ~crashed
    /\ heap = "live" /\ mapped /\ file.kind = "full"
    /\ ~WildRead("PTR", qjde, qn, qm)

\* what jpl_calc answers for the same time with target and reference swapped
SwappedAnswer == jpl_calc(pl, jpl, "PTR", now, MemOf(0), qjde, qm, qn).now

\* C8: the position and velocity of n relative to m are the negation of
\* those of m relative to n, and are exactly zero when n = m
C8_Antisymmetric ==
    ValidAnswer =>
        \A p \in 0 .. 2 :
            /\ now.u[p] = RNeg(SwappedAnswer.u[p])
            /\ now.v[p] = RNeg(SwappedAnswer.v[p])
            /\ (qn = qm) => (now.u[p] = RZero /\ now.v[p] = RZero)

\* a valid answer for two different bodies that is not zero
C8_Witness ==
    ValidAnswer /\ qn # qm /\ now.u[0] # RZero /\ now.v[0] # RZero

\* the Earth-Moon barycentre and geocentric Moon slots at the query's
\* record and fraction
SlotAt(slot) ==
    jpl_work(MemOf(0), CalcZ(jpl, qjde) + jpl.off[slot], jpl.ncm[slot], jpl.ncf[slot],
             jpl.niv[slot], CalcT(jpl, qjde), jpl.inc)

\* C9: the Earth's barycentric position and velocity are the Earth-Moon
\* barycentre slot's minus the geocentric Moon slot's divided by 1 + cem
C9_EarthComposed ==
    (ValidAnswer /\ qn = PLAN_EAR /\ qm = PLAN_BAR) =>
        \A p \in 0 .. 2 :
            /\ now.u[p] = RSub(SlotAt(JPL_EMB).u[p], RDiv(SlotAt(JPL_LUN).u[p], RAdd(RInt(1), jpl.cem)))
            /\ now.v[p] = RSub(SlotAt(JPL_EMB).v[p], RDiv(SlotAt(JPL_LUN).v[p], RAdd(RInt(1), jpl.cem)))

\* a valid Earth answer at a time when the Moon's term is not zero
C9_Witness ==
    /\ ValidAnswer /\ qn = PLAN_EAR /\ qm = PLAN_BAR
    /\ SlotAt(JPL_LUN).u[0] # RZero /\ SlotAt(JPL_LUN).v[0] # RZero

\* the writes store_function has made
StoreWrites == { k \in 1 .. Len(writes) : writes[k].by = "store_function" }

\* C10: store_function for step j writes the start state and nodes 1..7 to
\* entries 8*(j-1) .. 8*(j-1)+7, the ranges of different steps are disjoint,
\* and the n_out returned is 8*(nsteps-1), the number of entries the
\* nsteps-1 calls of store_function wrote
C10_EightPerStep ==
    /\ \A k \in StoreWrites :
          /\ writes[k].idx = (8 * (writes[k].step - 1)) .. (8 * (writes[k].step - 1) + 7)
          /\ \A e \in writes[k].idx :
                /\ outstate[e].step = writes[k].step
                /\ outstate[e].n = e - 8 * (writes[k].step - 1)
    /\ \A a, b \in StoreWrites : a # b => writes[a].idx \cap writes[b].idx = {}
    /\ opc = "returned" =>
          /\ nOut = 8 * (nsteps - 1)
          /\ Cardinality(StoreWrites) = nsteps - 1
          /\ Cardinality(UNION { writes[k].idx : k \in StoreWrites }) = nOut

\* an integration of several steps has returned
C10_Witness ==
    opc = "returned" /\ nsteps >= 3 /\ Cardinality(StoreWrites) >= 2

\* C10 as stated: the n_out returned is the number of entries of outstate
\* that were written
C10_CountsEveryEntry ==
    opc = "returned" => nOut = Cardinality(DOMAIN outstate)

\* the pairs of neighbouring entries of outstate that have been written
Neighbours == { k \in DOMAIN outstate : k + 1 \in DOMAIN outstate }

\* C11: the time tags run strictly in the direction of tstep in output-index
\* order, within a step and across steps: strictly increasing when
\* tstep > 0 and strictly decreasing when tstep < 0
C11_TagsFollowTstep ==
    \A k \in Neighbours :
        /\ RLt(RZero, tstep) => RLt(outstate[k].t, outstate[k + 1].t)
        /\ RLt(tstep, RZero) => RLt(outstate[k + 1].t, outstate[k].t)

\* a backward integration of several steps has returned
C11_Witness ==
    opc = "returned" /\ RLt(tstep, RZero) /\ nsteps >= 3 /\ 16 \in DOMAIN outstate

\* C11 as stated: the time tags are strictly increasing in output-index
\* order for every tstep, negative ones included
C11_TagsIncrease ==
    \A k \in Neighbours : RLt(outstate[k].t, outstate[k + 1].t)

\* t lies between a and b, whichever of them is the smaller
Within(t, a, b) == (RLe(a, t) /\ RLe(t, b)) \/ (RLe(b, t) /\ RLe(t, a))

\* the entries of outstate that hold a node of some step
NodeEntries == { k \in DOMAIN outstate : outstate[k].n >= 1 }

\* the time tag of entry k lies in the interval that begins at its start
\* state and is tstep long
TagInInterval(k) ==
    Within(outstate[k].t, outstate[k].about, RAdd(outstate[k].about, tstep))

\* C12: every node sample's time tag lies in [step_start, step_start +
\* step_size], step_start being the time of the start state stored for the
\* interval, and is the time of the expansion about that start state, however
\* many internal steps reb_integrate took
C12_NodesAboutStart ==
    \A k \in NodeEntries : TagInInterval(k) /\ outstate[k].t = outstate[k].at

\* a handle of a complete file is live and jpl_calc accepts the query time
AcceptedOnFull ==
    /\ pl = "PTR" /\ heap = "live" /\ mapped /\ file.kind = "full"
    /\ ~CalcRejects(jpl, qjde)

\* the slots jpl_calc hands to jpl_work for the query
QuerySlots == SlotsOf(qn) \cup SlotsOf(qm)

\* the sub-interval index jpl_work computes for slot s at the query time
SubInterval(s) == WorkB(jpl.niv[s], CalcT(jpl, qjde))

\* the double indices, counted from the slot's start, at which jpl_work
\* reads component m of slot s
ComponentReads(s, m) ==
    { WorkN(jpl.ncm[s], jpl.ncf[s], SubInterval(s), m) + p : p \in 0 .. (jpl.ncf[s] - 1) }

\* C13: the fraction t0 jpl_calc passes lies in [0,1); for every slot it
\* evaluates, b = floor(t0*niv) lies in 0..niv-1, component m reads exactly
\* the ncf coefficients ncf*(m + b*ncm) .. ncf*(m + b*ncm) + ncf-1, and all
\* of them lie inside the slot's block of ncf*ncm*niv coefficients
C13_ReadsInsideSlot ==
    AcceptedOnFull =>
        /\ RLe(RZero, CalcT(jpl, qjde)) /\ RLt(CalcT(jpl, qjde), RInt(1))
        /\ \A s \in QuerySlots :
              /\ SubInterval(s) \in 0 .. (jpl.niv[s] - 1)
              /\ \A m \in 0 .. (jpl.ncm[s] - 1) :
                    /\ ComponentReads(s, m) =
                          (jpl.ncf[s] * (m + SubInterval(s) * jpl.ncm[s])) ..
                          (jpl.ncf[s] * (m + SubInterval(s) * jpl.ncm[s]) + jpl.ncf[s] - 1)
                    /\ ComponentReads(s, m) \subseteq 0 .. (jpl.ncf[s] * jpl.ncm[s] * jpl.niv[s] - 1)
              /\ WorkReads(CalcZ(jpl, qjde) + jpl.off[s], jpl.ncm[s], jpl.ncf[s], jpl.niv[s], CalcT(jpl, qjde))
                    = UNION { { CalcZ(jpl, qjde) + jpl.off[s] + e : e \in ComponentReads(s, m) } :
                              m \in 0 .. (jpl.ncm[s] - 1) }

\* a query was answered from a sub-interval other than the first
C13_Witness ==
    /\ AcceptedOnFull /\ op = "calc" /\ ret = 0 /\ nowArg = "PTR"
    /\ \E s \in QuerySlots : SubInterval(s) >= 1

\* jpl_init has just returned a handle for a complete file
InitOnFull == op = "init" /\ pl = "PTR" /\ file.kind = "full"

\* where in ReadOrder the version field is read
VerIndex == CHOOSE k \in 1 .. Len(ReadOrder) : ReadOrder[k].field = "ver"

\* the components the record size counts for slot p: 2 for the nutations
\* slot, 1 for the TT-TDB slot, 3 for every other
Components(p) == IF p = JPL_NUT THEN 2 ELSE IF p = JPL_TDB THEN 1 ELSE 3

\* C14: after a successful jpl_init the record size is 2*8 bytes plus 8 bytes
\* times the sum over the 15 slots of ncf*niv*ncm, with ncm 2 for nutations,
\* 1 for TT-TDB and 3 otherwise; the nutations slot is the last of the 12
\* triples read before the version field, and the triple read immediately
\* after the version field is that of the lunar librations slot
C14_RecordSize ==
    InitOnFull =>
        /\ jpl.rec = 2 * 8 + 8 * SumTo([p \in Slots |-> jpl.ncf[p] * jpl.niv[p] * Components(p)], 0, 14)
        /\ \A p \in Slots : jpl.ncm[p] = Components(p)
        /\ jpl.rec = RecOf(file.hdr) /\ jpl.len = (2 + NumRec) * jpl.rec
        /\ SumTo([k \in 1 .. Len(ReadOrder) |-> ReadOrder[k].sz], 1, Len(ReadOrder)) = HeaderPart1
        /\ ReadOrder[VerIndex - 1].slot = JPL_NUT
        /\ ReadOrder[VerIndex + 1].slot = JPL_LIB

\* a handle for the file whose nutations and librations slots differ in shape
C14_Witness ==
    InitOnFull /\ jpl.ncf[JPL_NUT] # jpl.ncf[JPL_LIB] /\ jpl.niv[JPL_NUT] # jpl.niv[JPL_LIB]

\* C14 as stated: the nutations slot is the one whose triple is read
\* immediately after the version field
C14_NutationsAfterVersion ==
    InitOnFull => ReadOrder[VerIndex + 1].slot = JPL_NUT

\* the number of times the loop of rebx_ephemeris_forces runs
LoopCount == IF GetParam("N_ephem") > 0 THEN GetParam("N_ephem") ELSE 0

\* C15: during a call with N_ephem present there is at most one handle open
\* at any moment; the handle of index i is opened, used only while open, and
\* closed before the pull of index i and so before the next open; when the
\* call returns there was one open and one close per index and neither a
\* handle, a mapping nor a file descriptor is left open
C15_OpenClosePerIndex ==
    HasParam("N_ephem") =>
        /\ opens - closes \in {0, 1}
        /\ (heap = "live") <=> (opens = closes + 1)
        /\ mapped => heap = "live"
        /\ pc \in {"ephem_calc", "ephem_free"} => (heap = "live" /\ opens = i + 1 /\ closes = i)
        /\ pc = "ephem_init" => (heap # "live" /\ opens = i /\ closes = i)
        /\ pc = "pull" => (heap = "freed" /\ opens = i + 1 /\ closes = i + 1)
        /\ pc = "returned" =>
              /\ opens = LoopCount /\ closes = LoopCount
              /\ heap # "live" /\ ~mapped /\ FdsLeftOpen(file) = 0

\* a call over more indices than ephem has branches for has returned
C15_Witness ==
    pc = "returned" /\ HasParam("N_ephem") /\ opens >= 6 /\ closes = opens

\* C16: for a handle of a complete file and every jde the range check
\* accepts, jde = end included, the record at byte (blk+2)*rec, rec bytes
\* long, lies inside the len mapped bytes, and no read of the evaluation
\* falls outside the mapping
C16_RecordInsideMap ==
    AcceptedOnFull =>
        /\ (CalcBlk(jpl, qjde) + 2) * jpl.rec + jpl.rec <= jpl.len
        /\ \A idx \in CalcReads(jpl, qjde, qn, qm) : InMap(MemOf(0), idx)

\* C17: a pull made with a position that ephem resolved for its own index
\* uses a sample that jpl_calc produced with the return value 0; when
\* jpl_calc returned -1 no acceleration is changed from the unset sample
C17_PullNeedsSuccess ==
    \A k \in 1 .. Len(pulls) : pulls[k].src = pulls[k].i => pulls[k].ret = 0

====
